---- MODULE Spec2Model ----
(***************************************************************************)
(* Theme & Font Toggle plugin: the ThemeFontToggle controller              *)
(* (theme-font-toggle.js), the extension popup script (popup.js) and the   *)
(* extension content script (content.js).                                  *)
(*                                                                         *)
(* The control context holds one controller, its document attributes, its  *)
(* three controls and localStorage.  On the popup surface the popup        *)
(* script's listeners additionally write chrome.storage.sync and send      *)
(* messages to page contexts (tabs), each of which runs the content script.*)
(***************************************************************************)
EXTENDS Integers, Sequences, FiniteSets, TLC

(* ---------------------------- bounds ---------------------------------- *)

\* number of page contexts (tabs) the browser can have open
NumTabs == 2
\* deliveries of one kind (messages; storage results and change events) in
\* flight to one page context
MaxInFlight == 1

(* ------------------------- values and keys ---------------------------- *)

Dims == {"theme", "font", "fontSize"}

\* null / undefined / a missing attribute or store entry
Null == "<null>"

\* the value strings in play; "" is the empty string, which JavaScript treats
\* as falsy
ThemeValues == {"light", "dark", "auto", ""}
FontValues == {"system", "serif"}
FontSizeValues == {"medium", "large"}

Values(d) ==
    IF d = "theme" THEN ThemeValues
    ELSE IF d = "font" THEN FontValues
    ELSE FontSizeValues

\* this.config
storagePrefix == "theme-font-toggle"
defaultTheme == "light"
defaultFont == "system"
defaultFontSize == "medium"

Default(d) ==
    IF d = "theme" THEN defaultTheme
    ELSE IF d = "font" THEN defaultFont
    ELSE defaultFontSize

\* storage keys named after the dimension: <prefix>-fontSize for the font size
storageKeysByDimension(d) == storagePrefix \o "-" \o d

\* this.storageKeys
storageKeys(d) ==
    IF d = "theme" THEN storagePrefix \o "-theme"
    ELSE IF d = "font" THEN storagePrefix \o "-font"
    ELSE storagePrefix \o "-font-size"

StorageKeySet == {storageKeys(d) : d \in Dims}

\* the order of Object.values(this.storageKeys)
KeyOrder == <<storageKeys("theme"), storageKeys("font"), storageKeys("fontSize")>>

\* the keys of localStorage that are looked at: the origin's other entries
\* play no part
LocalStorageKeys ==
    {storagePrefix \o "-" \o n : n \in {"theme", "font", "fontSize", "font-size"}}

OrElseAbsentOnly(a, b) == IF a = Null THEN b ELSE a

\* a || b
OrElse(a, b) == IF a = Null \/ a = "" THEN b ELSE a

\* if (x) ...
Truthy(a) == a # Null /\ a # ""

\* the identity of a listener function: the arrow functions registered by
\* setupEventListeners, and the prototype methods handed to
\* removeEventListener by destroy
ArrowListener(d) == "arrow:" \o d
MethodListener(d) == "method:" \o d

\* EventTarget.removeEventListener: removes the listener that is the same
\* function object, and nothing else
removeEventListener(registered, fn) == registered \ {fn}

ChangedEvent(d) ==
    IF d = "theme" THEN "themeChanged"
    ELSE IF d = "font" THEN "fontChanged"
    ELSE "fontSizeChanged"

SetAction(d) ==
    IF d = "theme" THEN "setTheme"
    ELSE IF d = "font" THEN "setFont"
    ELSE "setFontSize"

NoFields == [d \in Dims |-> Null]


(* ------------------------------ state --------------------------------- *)

VARIABLES
    host,           \* the page the controller runs in: surface ("page" or
                    \* "popup"), the dimensions whose control element exists,
                    \* config.autoDetectSystemTheme
    phase,          \* "loading" (no controller yet), "ready", "destroyed"
    globalInstance, \* window.themeFontToggle is set
    cur,            \* currentTheme / currentFont / currentFontSize
    selRef,         \* dimensions whose this.<dim>Selector is non-null
    listeners,      \* per control element, the registered change listeners
    mqListeners,    \* listeners registered on the prefers-color-scheme query
    docAttr,        \* data-theme / data-font / data-font-size of the document
    selValue,       \* the value property of each control element
    localStorage,   \* key -> string or Null
    storeOk,        \* FALSE: every localStorage access throws
    syncStore,      \* chrome.storage.sync: dimension -> string or Null
    popupLoadPending, \* the popup's chrome.storage.sync.get callback is due
    activeTab,      \* the focused page context, 0 when there is none
    tabListening,   \* page contexts whose content script receives messages
    inbox,          \* per page context, the deliveries in flight to it
    tabAttr,        \* per page context, its document attributes
    tabStyles,      \* per page context, elements with id theme-toggle-styles
    tabAck,         \* per page context, the action tag of the delivery
                    \* handled last and the responses its handler sent
    lastOp,         \* the operation that ran last
    lastWrite,      \* per dimension, the value of the last store write the
                    \* controller made that localStorage accepted (Null after
                    \* an accepted removal, or when there was none)
    notified,       \* the notifications the last operation dispatched
    applied,        \* the applicator calls the last operation made
    thrown,         \* the last operation let an error reach its caller
    issued,         \* the chrome.storage / chrome.tabs calls the last operation
                    \* of the control context made, in the order made
    uncaught,       \* the errors the last operation left unhandled in its
                    \* asynchronous callbacks and promises
    lastSend        \* per dimension, the page context that was sent the
                    \* single-dimension message of the controller's latest
                    \* change, 0 when that send failed or the context or the
                    \* controller has been loaded anew since

ctlVars == <<phase, globalInstance, cur, selRef, listeners, mqListeners,
             docAttr, selValue, localStorage, lastOp, lastWrite, notified,
             applied, thrown, issued, uncaught>>
envVars == <<host, storeOk, activeTab, tabListening>>
extVars == <<syncStore, popupLoadPending, inbox, lastSend>>
tabVars == <<tabAttr, tabStyles, tabAck>>
vars == <<ctlVars, envVars, extVars, tabVars>>

Tabs == 1..NumTabs

Triple(c) == [theme |-> c["theme"], font |-> c["font"], fontSize |-> c["fontSize"]]

Op(kind, dim, value) == [kind |-> kind, dim |-> dim, value |-> value]

(* ------------------- the control context as a value ------------------- *)
\* What one synchronous handler of the control context reads and writes.
\* The operators below take this record, run one method of the controller on
\* it and return it; an action hands the final record to Commit.

Ctl ==
    [cur |-> cur, ls |-> localStorage, doc |-> docAttr, sel |-> selValue,
     refs |-> selRef, sync |-> syncStore, inbox |-> inbox,
     notified |-> <<>>, applied |-> <<>>, thrown |-> FALSE,
     issued |-> <<>>, uncaught |-> <<>>, lastSend |-> lastSend]

Commit(S) ==
    /\ cur' = S.cur
    /\ localStorage' = S.ls
    /\ docAttr' = S.doc
    /\ selValue' = S.sel
    /\ selRef' = S.refs
    /\ syncStore' = S.sync
    /\ inbox' = S.inbox
    /\ notified' = S.notified
    /\ applied' = S.applied
    /\ thrown' = S.thrown
    /\ issued' = S.issued
    /\ uncaught' = S.uncaught
    /\ lastSend' = S.lastSend

\* the deliveries of queue q that travel as messages, and those that come
\* from the storage area (results of a read, change events)
IsMessage(x) == x.kind = "message"

IsStorage(x) == x.kind # "message"

\* every queue of deliveries stays within the bound
Fits(S) ==
    \A t \in Tabs :
        /\ Len(SelectSeq(S.inbox[t], IsMessage)) <= MaxInFlight
        /\ Len(SelectSeq(S.inbox[t], IsStorage)) <= MaxInFlight

(* --------------------------- deliveries ------------------------------- *)

Message(action, top, hasSettings, settings) ==
    [kind |-> "message", action |-> action, top |-> top,
     hasSettings |-> hasSettings, settings |-> settings]

\* a chrome.storage.onChanged event for one key of the sync area
Changed(d, v) ==
    [kind |-> "changed", action |-> "", top |-> [NoFields EXCEPT ![d] = v],
     hasSettings |-> FALSE, settings |-> NoFields]


\* chrome.storage.onChanged reaches every page context whose content script
\* is running, when the stored value actually changes
notifyChanged(S, d, old, new) ==
    IF old = new THEN S
    ELSE [S EXCEPT !.inbox =
            [t \in Tabs |-> IF t \in tabListening
                            THEN Append(S.inbox[t], Changed(d, new))
                            ELSE S.inbox[t]]]

\* a call of the chrome API as the control context issues it
Call(api, tab, m) ==
    [api |-> api, tab |-> tab, action |-> m.action, top |-> m.top,
     hasSettings |-> m.hasSettings, settings |-> m.settings]

\* chrome.storage.sync.set({ <d>: v })
syncSet(S, d, v) ==
    notifyChanged([S EXCEPT !.sync[d] = v,
                            !.issued = Append(@, Call("storage.sync.set", 0,
                                                      Changed(d, v)))],
                  d, S.sync[d], v)

\* the dimension a single-dimension message is about
DimOfAction(action) == CHOOSE d \in Dims : SetAction(d) = action

\* a send that keeps the message for a focused context without a receiver
\* and hands it over once that context listens
sendToActiveTabQueued(S, m) ==
    LET d == DimOfAction(m.action)
    IN  IF activeTab = 0
        THEN [S EXCEPT !.uncaught = Append(@, "TypeError"), !.lastSend[d] = 0]
        ELSE [S EXCEPT !.issued =
                          Append(@, Call("tabs.sendMessage", activeTab, m)),
                       !.inbox[activeTab] = Append(@, m),
                       !.lastSend[d] = activeTab]

\* chrome.tabs.query({active, currentWindow}, tabs => chrome.tabs.sendMessage(
\* tabs[0].id, m)): m travels to the focused page context.  With no focused
\* context tabs[0] is undefined and tabs[0].id throws a TypeError inside the
\* callback; with a focused context that has no receiver the promise
\* sendMessage returns is rejected and nothing handles the rejection.
sendToActiveTab(S, m) ==
    LET d == DimOfAction(m.action)
    IN  IF activeTab = 0
        THEN [S EXCEPT !.uncaught = Append(@, "TypeError"), !.lastSend[d] = 0]
        ELSE LET S1 == [S EXCEPT !.issued =
                          Append(@, Call("tabs.sendMessage", activeTab, m))]
             IN  IF activeTab \in tabListening
                 THEN [S1 EXCEPT !.inbox[activeTab] = Append(@, m),
                                 !.lastSend[d] = activeTab]
                 ELSE [S1 EXCEPT !.uncaught = Append(@, "NoReceiver"),
                                 !.lastSend[d] = 0]

\* popup.js: the listeners for themeFontToggle:themeChanged / fontChanged /
\* fontSizeChanged
popupThemeChanged(S, detail) ==
    sendToActiveTab(syncSet(S, "theme", detail.theme),
        Message("setTheme", [NoFields EXCEPT !["theme"] = detail.theme],
                FALSE, NoFields))

\* a fontChanged listener that sends the message before it writes the store
popupFontChangedSendFirst(S, detail) ==
    syncSet(sendToActiveTab(S,
                Message("setFont", [NoFields EXCEPT !["font"] = detail.font],
                        FALSE, NoFields)),
            "font", detail.font)

popupFontChanged(S, detail) ==
    sendToActiveTab(syncSet(S, "font", detail.font),
        Message("setFont", [NoFields EXCEPT !["font"] = detail.font],
                FALSE, NoFields))

popupFontSizeChanged(S, detail) ==
    sendToActiveTab(syncSet(S, "fontSize", detail.fontSize),
        Message("setFontSize", [NoFields EXCEPT !["fontSize"] = detail.fontSize],
                FALSE, NoFields))

(* --------------------- ThemeFontToggle (controller) ------------------- *)

\* dispatchEvent(eventName, detail): document.dispatchEvent runs the
\* listeners registered on the document synchronously; on the popup surface
\* those are the listeners of popup.js
dispatchEvent(S, eventName, detail) ==
    IF S.thrown THEN S
    ELSE LET S1 == [S EXCEPT !.notified =
                        Append(@, [name |-> eventName, detail |-> detail])]
         IN  IF host.surface # "popup" THEN S1
             ELSE IF eventName = "themeChanged" THEN popupThemeChanged(S1, detail)
             ELSE IF eventName = "fontChanged" THEN popupFontChanged(S1, detail)
             ELSE IF eventName = "fontSizeChanged" THEN popupFontSizeChanged(S1, detail)
             ELSE S1

\* getStoredValue reading under `${storagePrefix}-${key}` instead of the key
\* kept in this.storageKeys
getStoredValueByName(S, key) ==
    IF storeOk
    THEN IF (storagePrefix \o "-" \o key) \in DOMAIN S.ls
         THEN S.ls[storagePrefix \o "-" \o key] ELSE Null
    ELSE Null

\* getStoredValue(key): null when localStorage throws
getStoredValue(S, key) ==
    IF storeOk THEN S.ls[storageKeys(key)] ELSE Null

\* setStoredValue without its try/catch: the error of a throwing localStorage
\* reaches the caller
setStoredValueUncaught(S, key, value) ==
    IF S.thrown THEN S
    ELSE IF storeOk THEN [S EXCEPT !.ls[storageKeys(key)] = value]
    ELSE [S EXCEPT !.thrown = TRUE]

\* setStoredValue(key, value): a throwing localStorage is caught and logged
setStoredValue(S, key, value) ==
    IF S.thrown THEN S
    ELSE IF storeOk THEN [S EXCEPT !.ls[storageKeys(key)] = value]
    ELSE S

\* loadPreferences over a getStoredValue that does not catch: the error of a
\* throwing localStorage ends setup()
loadPreferencesUncaught(S) ==
    IF storeOk
    THEN [S EXCEPT !.cur =
            [d \in Dims |-> OrElse(S.ls[storageKeys(d)], Default(d))]]
    ELSE [S EXCEPT !.thrown = TRUE]

\* loadPreferences()
loadPreferences(S) ==
    [S EXCEPT !.cur =
        [d \in Dims |-> OrElse(getStoredValue(S, d), Default(d))]]

\* applyTheme / applyFont / applyFontSize: setAttribute on the root element
applyTheme(S, theme) ==
    IF S.thrown THEN S
    ELSE [S EXCEPT !.doc["theme"] = theme,
                   !.applied = Append(@, <<"theme", theme>>)]

applyFont(S, font) ==
    IF S.thrown THEN S
    ELSE [S EXCEPT !.doc["font"] = font,
                   !.applied = Append(@, <<"font", font>>)]

applyFontSize(S, fontSize) ==
    IF S.thrown THEN S
    ELSE [S EXCEPT !.doc["fontSize"] = fontSize,
                   !.applied = Append(@, <<"fontSize", fontSize>>)]

\* an updateSelector that reads selector.value without testing the selector
updateSelectorUntested(S, d, value) ==
    IF S.thrown THEN S
    ELSE IF d \notin S.refs THEN [S EXCEPT !.thrown = TRUE]
    ELSE IF S.sel[d] # value THEN [S EXCEPT !.sel[d] = value]
    ELSE S

\* updateSelector(selector, value), selector being this.<d>Selector
updateSelector(S, d, value) ==
    IF S.thrown THEN S
    ELSE IF d \in S.refs /\ S.sel[d] # value THEN [S EXCEPT !.sel[d] = value]
    ELSE S

\* getSettings()
getSettings(S) == Triple(S.cur)

\* a setTheme that returns early when the theme is the current one
setThemeIfChanged(S, theme) ==
    IF S.cur["theme"] = theme THEN S
    ELSE LET S1 == [S EXCEPT !.cur["theme"] = theme]
             S2 == setStoredValue(S1, "theme", theme)
             S3 == applyTheme(S2, theme)
             S4 == updateSelector(S3, "theme", theme)
         IN  dispatchEvent(S4, "themeChanged",
                 [theme |-> theme, font |-> S4.cur["font"],
                  fontSize |-> S4.cur["fontSize"]])

\* setTheme(theme)
setTheme(S, theme) ==
    LET S1 == [S EXCEPT !.cur["theme"] = theme]
        S2 == setStoredValue(S1, "theme", theme)
        S3 == applyTheme(S2, theme)
        S4 == updateSelector(S3, "theme", theme)
    IN  dispatchEvent(S4, "themeChanged",
            [theme |-> theme, font |-> S4.cur["font"],
             fontSize |-> S4.cur["fontSize"]])

\* setFont copied from setTheme with the storage key left as 'theme'
setFontThemeKey(S, font) ==
    LET S1 == [S EXCEPT !.cur["font"] = font]
        S2 == setStoredValue(S1, "theme", font)
        S3 == applyFont(S2, font)
        S4 == updateSelector(S3, "font", font)
    IN  dispatchEvent(S4, "fontChanged",
            [theme |-> S4.cur["theme"], font |-> font,
             fontSize |-> S4.cur["fontSize"]])

\* setFont(font)
setFont(S, font) ==
    LET S1 == [S EXCEPT !.cur["font"] = font]
        S2 == setStoredValue(S1, "font", font)
        S3 == applyFont(S2, font)
        S4 == updateSelector(S3, "font", font)
    IN  dispatchEvent(S4, "fontChanged",
            [theme |-> S4.cur["theme"], font |-> font,
             fontSize |-> S4.cur["fontSize"]])

\* a setFontSize that persists nothing
setFontSizeUnsaved(S, fontSize) ==
    LET S1 == [S EXCEPT !.cur["fontSize"] = fontSize]
        S3 == applyFontSize(S1, fontSize)
        S4 == updateSelector(S3, "fontSize", fontSize)
    IN  dispatchEvent(S4, "fontSizeChanged",
            [theme |-> S4.cur["theme"], font |-> S4.cur["font"],
             fontSize |-> fontSize])

\* setFontSize(fontSize)
setFontSize(S, fontSize) ==
    LET S1 == [S EXCEPT !.cur["fontSize"] = fontSize]
        S2 == setStoredValue(S1, "fontSize", fontSize)
        S3 == applyFontSize(S2, fontSize)
        S4 == updateSelector(S3, "fontSize", fontSize)
    IN  dispatchEvent(S4, "fontSizeChanged",
            [theme |-> S4.cur["theme"], font |-> S4.cur["font"],
             fontSize |-> fontSize])

\* the setter of dimension d
setDimension(S, d, v) ==
    IF d = "theme" THEN setTheme(S, v)
    ELSE IF d = "font" THEN setFont(S, v)
    ELSE setFontSize(S, v)

\* applySettings without the update of the selector values
applySettingsNoSelectors(S) ==
    LET S1 == applyTheme(S, S.cur["theme"])
        S2 == applyFont(S1, S1.cur["font"])
    IN  applyFontSize(S2, S2.cur["fontSize"])

\* applySettings()
applySettings(S) ==
    LET S1 == applyTheme(S, S.cur["theme"])
        S2 == applyFont(S1, S1.cur["font"])
        S3 == applyFontSize(S2, S2.cur["fontSize"])
        S4 == updateSelector(S3, "theme", S3.cur["theme"])
        S5 == updateSelector(S4, "font", S4.cur["font"])
    IN  updateSelector(S5, "fontSize", S5.cur["fontSize"])

\* reset that forgets the font size
resetNoFontSize(S) ==
    LET S1 == setTheme(S, defaultTheme)
        S2 == setFont(S1, defaultFont)
    IN  dispatchEvent(S2, "reset", getSettings(S2))

\* reset()
reset(S) ==
    LET S1 == setTheme(S, defaultTheme)
        S2 == setFont(S1, defaultFont)
        S3 == setFontSize(S2, defaultFontSize)
    IN  dispatchEvent(S3, "reset", getSettings(S3))

\* localStorage.removeItem for the first n keys of KeyOrder
RECURSIVE removeKeys(_, _)
removeKeys(ls, n) ==
    IF n = 0 THEN ls
    ELSE [removeKeys(ls, n - 1) EXCEPT ![KeyOrder[n]] = Null]

\* clearStorage that goes back to the defaults as well
clearStorageAndState(S) ==
    LET S1 == IF storeOk THEN [S EXCEPT !.ls = removeKeys(S.ls, Len(KeyOrder))]
              ELSE S
        S2 == [S1 EXCEPT !.cur = [d \in Dims |-> Default(d)]]
    IN  dispatchEvent(S2, "storageCleared", getSettings(S2))

\* clearStorage(): the forEach stops at the first removeItem that throws, and
\* the error is caught and logged
clearStorage(S) ==
    LET S1 == IF storeOk THEN [S EXCEPT !.ls = removeKeys(S.ls, Len(KeyOrder))]
              ELSE S
    IN  dispatchEvent(S1, "storageCleared", getSettings(S1))

\* setupEventListeners(): one arrow function per control element that exists
setupEventListeners(refs, registered) ==
    [d \in Dims |-> IF d \in refs THEN registered[d] \cup {ArrowListener(d)}
                    ELSE registered[d]]

\* setupSystemThemeListener()
setupSystemThemeListener(registered) == registered \cup {"arrow:systemTheme"}

\* a system-theme listener that goes through setTheme
systemThemeChangedSetTheme(S) ==
    IF S.cur["theme"] = "auto" THEN setTheme(S, "auto") ELSE S

\* the change listener registered by setupSystemThemeListener()
systemThemeChanged(S) ==
    IF S.cur["theme"] = "auto" THEN applyTheme(S, "auto") ELSE S

\* setup(), run by the constructor through init()
setup(S) ==
    LET S1 == [S EXCEPT !.refs = host.controls]
        S2 == loadPreferences(S1)
        S3 == applySettings(S2)
    IN  dispatchEvent(S3, "initialized", Triple(S3.cur))

\* destroy(): the removeEventListener calls, the cleared references and the
\* notification
destroyListeners(refs, registered) ==
    [d \in Dims |-> IF d \in refs
                    THEN removeEventListener(registered[d], MethodListener(d))
                    ELSE registered[d]]

destroy(S) ==
    LET S1 == [S EXCEPT !.refs = {}]
    IN  dispatchEvent(S1, "destroyed", getSettings(S1))


(* ------------------------ content script (page context) --------------- *)

\* setAttribute(name, value) stores String(value)
AttrString(v) == IF v = Null THEN "undefined" ELSE v

TabRec(t) == [attr |-> tabAttr[t], styles |-> tabStyles[t], responses |-> <<>>]

\* injectThemeStyles(): appends one style element with id theme-toggle-styles
injectThemeStyles(T) == [T EXCEPT !.styles = @ + 1]

\* an applyTheme that injects the styles without looking for the element
pageApplyThemeAlwaysInject(T, theme) ==
    injectThemeStyles([T EXCEPT !.attr["theme"] = AttrString(theme)])

\* applyTheme(theme) of the content script
pageApplyTheme(T, theme) ==
    LET T1 == [T EXCEPT !.attr["theme"] = AttrString(theme)]
    IN  IF T1.styles = 0 THEN injectThemeStyles(T1) ELSE T1

\* an applyFont copied from applyTheme with the attribute left as data-theme
pageApplyFontAsTheme(T, font) == [T EXCEPT !.attr["theme"] = AttrString(font)]

\* applyFont(font) of the content script
pageApplyFont(T, font) == [T EXCEPT !.attr["font"] = AttrString(font)]

\* applyFontSize(fontSize) of the content script
pageApplyFontSize(T, fontSize) ==
    [T EXCEPT !.attr["fontSize"] = AttrString(fontSize)]

sendResponse(T, success, error) ==
    [T EXCEPT !.responses = Append(@, [success |-> success, error |-> error])]

\* an applySettings case that applies every field of message.settings,
\* truthy or not
pageApplySettingsAnyField(T, message) ==
    IF message.hasSettings
    THEN pageApplyFontSize(
           pageApplyFont(pageApplyTheme(T, message.settings["theme"]),
                         message.settings["font"]),
           message.settings["fontSize"])
    ELSE T

\* case 'applySettings' of the onMessage listener: each field of
\* message.settings that is truthy is applied
pageApplySettings(T, message) ==
    LET T1 == IF message.hasSettings /\ Truthy(message.settings["theme"])
              THEN pageApplyTheme(T, message.settings["theme"]) ELSE T
        T2 == IF message.hasSettings /\ Truthy(message.settings["font"])
              THEN pageApplyFont(T1, message.settings["font"]) ELSE T1
    IN  IF message.hasSettings /\ Truthy(message.settings["fontSize"])
        THEN pageApplyFontSize(T2, message.settings["fontSize"]) ELSE T2

\* an onMessage listener without the default branch
onMessageNoDefault(T, message) ==
    IF message.action = "setTheme"
    THEN sendResponse(pageApplyTheme(T, message.top["theme"]), TRUE, Null)
    ELSE IF message.action = "setFont"
    THEN sendResponse(pageApplyFont(T, message.top["font"]), TRUE, Null)
    ELSE IF message.action = "setFontSize"
    THEN sendResponse(pageApplyFontSize(T, message.top["fontSize"]), TRUE, Null)
    ELSE IF message.action = "applySettings"
    THEN sendResponse(pageApplySettings(T, message), TRUE, Null)
    ELSE T

\* the chrome.runtime.onMessage listener
onMessage(T, message) ==
    IF message.action = "setTheme"
    THEN sendResponse(pageApplyTheme(T, message.top["theme"]), TRUE, Null)
    ELSE IF message.action = "setFont"
    THEN sendResponse(pageApplyFont(T, message.top["font"]), TRUE, Null)
    ELSE IF message.action = "setFontSize"
    THEN sendResponse(pageApplyFontSize(T, message.top["fontSize"]), TRUE, Null)
    ELSE IF message.action = "applySettings"
    THEN sendResponse(pageApplySettings(T, message), TRUE, Null)
    ELSE sendResponse(T, FALSE, "Unknown action")

\* the result of the chrome.storage.sync.get of initializeContentScript, on
\* its way to the callback
Stored(result) ==
    [kind |-> "stored", action |-> "", top |-> result,
     hasSettings |-> FALSE, settings |-> NoFields]

\* initializeContentScript(): the callback of chrome.storage.sync.get applies
\* every stored value that is truthy
initializeContentScript(T, result) ==
    LET T1 == IF Truthy(result.top["theme"])
              THEN pageApplyTheme(T, result.top["theme"]) ELSE T
        T2 == IF Truthy(result.top["font"])
              THEN pageApplyFont(T1, result.top["font"]) ELSE T1
    IN  IF Truthy(result.top["fontSize"])
        THEN pageApplyFontSize(T2, result.top["fontSize"]) ELSE T2

\* the chrome.storage.onChanged listener, for an event of the sync area; a
\* dimension is in the changes when its top field is set
onChanged(T, changes) ==
    LET T1 == IF changes.top["theme"] # Null
              THEN pageApplyTheme(T, changes.top["theme"]) ELSE T
        T2 == IF changes.top["font"] # Null
              THEN pageApplyFont(T1, changes.top["font"]) ELSE T1
    IN  IF changes.top["fontSize"] # Null
        THEN pageApplyFontSize(T2, changes.top["fontSize"]) ELSE T2


(* ------------------------ popup.js: apply to all ---------------------- *)

\* tabs.forEach(tab => chrome.tabs.sendMessage(tab.id, m).catch(() => {}))
\* over the first n tabs: a tab that cannot receive rejects the promise, the
\* rejection is caught and the loop goes on
RECURSIVE sendToTabs(_, _, _)
sendToTabs(S, m, n) ==
    IF n = 0 THEN S
    ELSE LET S1 == sendToTabs(S, m, n - 1)
             S2 == [S1 EXCEPT !.issued =
                       Append(@, Call("tabs.sendMessage", n, m))]
         IN  IF n \in tabListening
             THEN [S2 EXCEPT !.inbox[n] = Append(@, m)]
             ELSE S2

\* an applyToAllTabs whose loop ends at the first tab that cannot receive
applyToAllTabsAbortOnFailure(S) ==
    LET settings == IF globalInstance THEN getSettings(S) ELSE NoFields
        last == IF \E t \in Tabs : t \notin tabListening
                THEN CHOOSE t \in Tabs :
                        /\ t \notin tabListening
                        /\ \A u \in Tabs : u \notin tabListening => t <= u
                ELSE NumTabs
    IN  sendToTabs(S, Message("applySettings", NoFields, TRUE, settings), last)

\* applyToAllTabs(): chrome.tabs.query({}) yields every open tab
applyToAllTabs(S) ==
    LET settings == IF globalInstance THEN getSettings(S) ELSE NoFields
    IN  sendToTabs(S, Message("applySettings", NoFields, TRUE, settings),
                   NumTabs)

(* ------------------------------ initial state ------------------------- *)

NoListeners == [d \in Dims |-> {}]

\* a freshly loaded document: no controller, no attributes; a control element
\* that exists shows some value of its own
FreshPage ==
    /\ phase = "loading"
    /\ globalInstance = FALSE
    /\ cur = NoFields
    /\ selRef = {}
    /\ listeners = NoListeners
    /\ mqListeners = {}
    /\ docAttr = NoFields
    /\ selValue \in [Dims -> {Null} \cup ThemeValues \cup FontValues \cup FontSizeValues]
    /\ \A d \in Dims : IF d \in host.controls THEN selValue[d] = Default(d)
                       ELSE selValue[d] = Null
    /\ lastOp = Op("load", "", "")
    /\ notified = <<>>
    /\ applied = <<>>
    /\ thrown = FALSE
    /\ issued = <<>>
    /\ uncaught = <<>>

InitStores ==
    /\ localStorage = [k \in LocalStorageKeys |-> Null]
    /\ lastWrite = NoFields
    /\ syncStore = NoFields

InitTabs ==
    /\ inbox = [t \in Tabs |-> <<>>]
    /\ lastSend = [d \in Dims |-> 0]
    /\ tabAttr = [t \in Tabs |-> NoFields]
    /\ tabStyles = [t \in Tabs |-> 0]
    /\ tabAck = [t \in Tabs |-> [action |-> "", responses |-> <<>>]]

\* web pages: any subset of the three controls with system-theme detection
\* on, and the full set of controls with detection off
PageHosts ==
    {h \in [surface : {"page"}, controls : SUBSET Dims,
            autoDetectSystemTheme : BOOLEAN] :
        h.autoDetectSystemTheme \/ h.controls = Dims}

PopupHosts ==
    [surface : {"popup"}, controls : {Dims}, autoDetectSystemTheme : {TRUE}]

\* the controller in a web page, or in the extension popup with no page
\* context open; localStorage of a web page may be unavailable
Init ==
    /\ host \in PageHosts \cup PopupHosts
    /\ storeOk \in BOOLEAN
    /\ host.surface = "popup" => storeOk
    /\ activeTab = 0
    /\ tabListening = {}
    /\ popupLoadPending = (host.surface = "popup")
    /\ FreshPage
    /\ InitStores
    /\ InitTabs

(* ------------------------------- actions ------------------------------ *)

\* new ThemeFontToggle(): constructor, init() and setup().  The DOMContentLoaded
\* auto-initialisation stores the instance in window.themeFontToggle when a
\* control element exists.
Construct ==
    /\ phase = "loading"
    /\ LET S == setup(Ctl) IN Fits(S) /\ Commit(S)
    /\ listeners' = setupEventListeners(host.controls, listeners)
    /\ mqListeners' = IF host.autoDetectSystemTheme
                      THEN setupSystemThemeListener(mqListeners)
                      ELSE mqListeners
    /\ phase' = "ready"
    /\ globalInstance' = (host.controls # {})
    /\ lastOp' = Op("construct", "", "")
    /\ UNCHANGED <<lastWrite, popupLoadPending, envVars, tabVars>>

\* the write setDimension(d, v) leaves in lastWrite
Written(d, v) == IF storeOk THEN [lastWrite EXCEPT ![d] = v] ELSE lastWrite

\* the user picks value v in the control of dimension d: the element shows v
\* and its change listeners run
ControlChange(d, v) ==
    /\ phase # "loading"
    /\ d \in host.controls
    /\ ArrowListener(d) \in listeners[d]
    /\ LET S == setDimension([Ctl EXCEPT !.sel[d] = v], d, v)
       IN  Fits(S) /\ Commit(S)
    /\ lastWrite' = Written(d, v)
    /\ lastOp' = Op("controlChange", d, v)
    /\ UNCHANGED <<phase, globalInstance, listeners, mqListeners,
                   popupLoadPending, envVars, tabVars>>

\* setTheme(v) / setFont(v) / setFontSize(v) called through the API
SetDimension(d, v) ==
    /\ phase = "ready"
    /\ LET S == setDimension(Ctl, d, v) IN Fits(S) /\ Commit(S)
    /\ lastWrite' = Written(d, v)
    /\ lastOp' = Op("set", d, v)
    /\ UNCHANGED <<phase, globalInstance, listeners, mqListeners,
                   popupLoadPending, envVars, tabVars>>

\* applySettings() called through the API
ApplySettings ==
    /\ phase = "ready"
    /\ LET S == applySettings(Ctl) IN Fits(S) /\ Commit(S)
    /\ lastOp' = Op("applySettings", "", "")
    /\ UNCHANGED <<phase, globalInstance, listeners, mqListeners, lastWrite,
                   popupLoadPending, envVars, tabVars>>

\* reset()
Reset ==
    /\ phase = "ready"
    /\ LET S == reset(Ctl) IN Fits(S) /\ Commit(S)
    /\ lastWrite' = IF storeOk THEN [d \in Dims |-> Default(d)] ELSE lastWrite
    /\ lastOp' = Op("reset", "", "")
    /\ UNCHANGED <<phase, globalInstance, listeners, mqListeners,
                   popupLoadPending, envVars, tabVars>>

\* clearStorage()
ClearStorage ==
    /\ phase = "ready"
    /\ LET S == clearStorage(Ctl) IN Fits(S) /\ Commit(S)
    /\ lastWrite' = IF storeOk THEN NoFields ELSE lastWrite
    /\ lastOp' = Op("clearStorage", "", "")
    /\ UNCHANGED <<phase, globalInstance, listeners, mqListeners,
                   popupLoadPending, envVars, tabVars>>

\* destroy()
Destroy ==
    /\ phase = "ready"
    /\ listeners' = destroyListeners(selRef, listeners)
    /\ LET S == destroy(Ctl) IN Fits(S) /\ Commit(S)
    /\ phase' = "destroyed"
    /\ lastOp' = Op("destroy", "", "")
    /\ UNCHANGED <<globalInstance, mqListeners, lastWrite, popupLoadPending,
                   envVars, tabVars>>

\* the prefers-color-scheme media query reports a change: the listener of
\* setupSystemThemeListener runs
SystemThemeSignal ==
    /\ "arrow:systemTheme" \in mqListeners
    /\ LET S == systemThemeChanged(Ctl) IN Fits(S) /\ Commit(S)
    /\ lastOp' = Op("systemSignal", "", "")
    /\ UNCHANGED <<phase, globalInstance, listeners, mqListeners, lastWrite,
                   popupLoadPending, envVars, tabVars>>

newThemeCycling(currentTheme) ==
    IF currentTheme = "light" THEN "dark"
    ELSE IF currentTheme = "dark" THEN "auto" ELSE "light"

\* the keydown listener's choice: const newTheme =
\* currentTheme === 'light' ? 'dark' : 'light'
newTheme(currentTheme) ==
    IF currentTheme = "light" THEN "dark" ELSE "light"

\* the keydown listener on Ctrl/Cmd+Shift+T: it acts on window.themeFontToggle
\* only, and does nothing when the page has no such instance
keydown(S) ==
    IF globalInstance THEN setTheme(S, newTheme(S.cur["theme"])) ELSE S

\* the user presses Ctrl/Cmd+Shift+T once the document's listeners are in place
KeyboardShortcut ==
    /\ phase # "loading"
    /\ LET S == keydown(Ctl) IN Fits(S) /\ Commit(S)
    /\ lastWrite' = IF globalInstance
                    THEN Written("theme", newTheme(cur["theme"]))
                    ELSE lastWrite
    /\ lastOp' = Op("shortcut", "theme",
                    IF globalInstance THEN newTheme(cur["theme"]) ELSE "")
    /\ UNCHANGED <<phase, globalInstance, listeners, mqListeners,
                   popupLoadPending, envVars, tabVars>>

\* popup.js: the chrome.storage.sync.get callback that runs once after the
\* popup has loaded
popupLoaded(S) ==
    LET S1 == [S EXCEPT !.sel =
                 [d \in Dims |-> IF Truthy(S.sync[d]) /\ d \in host.controls
                                 THEN S.sync[d] ELSE S.sel[d]]]
    IN  IF globalInstance THEN applySettings(S1) ELSE S1

PopupLoad ==
    /\ host.surface = "popup"
    /\ popupLoadPending
    /\ phase # "loading"
    /\ LET S == popupLoaded(Ctl) IN Fits(S) /\ Commit(S)
    /\ popupLoadPending' = FALSE
    /\ lastOp' = Op("popupLoad", "", "")
    /\ UNCHANGED <<phase, globalInstance, listeners, mqListeners, lastWrite,
                   envVars, tabVars>>

\* the document of the control context is loaded anew: the controller and
\* the DOM are gone, the stores are kept
Reload ==
    /\ phase # "loading"
    /\ phase' = "loading"
    /\ globalInstance' = FALSE
    /\ cur' = NoFields
    /\ selRef' = {}
    /\ listeners' = NoListeners
    /\ mqListeners' = {}
    /\ docAttr' = NoFields
    /\ selValue' = [d \in Dims |-> IF d \in host.controls THEN Default(d) ELSE Null]
    /\ popupLoadPending' = (host.surface = "popup")
    /\ lastOp' = Op("load", "", "")
    /\ notified' = <<>>
    /\ applied' = <<>>
    /\ thrown' = FALSE
    /\ issued' = <<>>
    /\ uncaught' = <<>>
    /\ lastSend' = [d \in Dims |-> 0]
    /\ UNCHANGED <<localStorage, lastWrite, syncStore, inbox, envVars, tabVars>>

\* localStorage starts or stops throwing (storage disabled, access denied)
StoreFails ==
    /\ storeOk
    /\ host.surface = "page"
    /\ storeOk' = FALSE
    /\ lastOp' = Op("storeFails", "", "")
    /\ notified' = <<>>
    /\ applied' = <<>>
    /\ issued' = <<>>
    /\ uncaught' = <<>>
    /\ UNCHANGED <<phase, globalInstance, cur, selRef, listeners, mqListeners,
                   docAttr, selValue, localStorage, lastWrite, thrown, host,
                   activeTab, tabListening, extVars, tabVars>>

StoreRecovers ==
    /\ ~storeOk
    /\ storeOk' = TRUE
    /\ lastOp' = Op("storeRecovers", "", "")
    /\ notified' = <<>>
    /\ applied' = <<>>
    /\ issued' = <<>>
    /\ uncaught' = <<>>
    /\ UNCHANGED <<phase, globalInstance, cur, selRef, listeners, mqListeners,
                   docAttr, selValue, localStorage, lastWrite, thrown, host,
                   activeTab, tabListening, extVars, tabVars>>

Next ==
    \/ Construct
    \/ \E d \in Dims : \E v \in Values(d) : ControlChange(d, v)
    \/ \E d \in Dims : \E v \in Values(d) : SetDimension(d, v)
    \/ ApplySettings
    \/ Reset
    \/ ClearStorage
    \/ Destroy
    \/ SystemThemeSignal
    \/ PopupLoad
    \/ Reload
    \/ StoreFails
    \/ StoreRecovers

Spec == Init /\ [][Next]_vars


(* ------------------- page contexts on their own ----------------------- *)

\* the values carried by the deliveries a page context is given
PageValues(d) ==
    IF d = "theme" THEN {"dark", "auto", ""}
    ELSE IF d = "font" THEN {"serif"}
    ELSE {"large"}

PartialTriples == [theme : PageValues("theme") \cup {Null},
                   font : PageValues("font") \cup {Null},
                   fontSize : PageValues("fontSize") \cup {Null}]

Fields(r) == [d \in Dims |-> r[d]]

\* the messages a page context may be sent: the four known tags, with their
\* field present or missing, and a tag the content script does not know
SetMessages(d) ==
    {Message(SetAction(d), [NoFields EXCEPT ![d] = v], FALSE, NoFields) :
        v \in (PageValues(d) \ {""}) \cup {Null}}

InboundMessages ==
    UNION {SetMessages(d) : d \in Dims}

    \cup {Message("applySettings", NoFields, TRUE, Fields(r)) : r \in PartialTriples}
    \cup {Message("applySettings", NoFields, FALSE, NoFields),
          Message("ping", NoFields, FALSE, NoFields)}

CommitTab(t, T, action) ==
    /\ tabAttr' = [tabAttr EXCEPT ![t] = T.attr]
    /\ tabStyles' = [tabStyles EXCEPT ![t] = T.styles]
    /\ tabAck' = [tabAck EXCEPT ![t] = [action |-> action, responses |-> T.responses]]

\* page context t is handed message m
ReceiveMessage(t, m) ==
    /\ t \in tabListening
    /\ CommitTab(t, onMessage(TabRec(t), m), m.action)
    /\ lastOp' = Op("onMessage", ToString(t), m.action)
    /\ notified' = <<>>
    /\ applied' = <<>>
    /\ issued' = <<>>
    /\ uncaught' = <<>>
    /\ UNCHANGED <<phase, globalInstance, cur, selRef, listeners, mqListeners,
                   docAttr, selValue, localStorage, lastWrite, thrown,
                   envVars, extVars>>

\* page context t is handed a change event of the sync area for dimension d
StorageChanged(t, d, v) ==
    /\ t \in tabListening
    /\ CommitTab(t, onChanged(TabRec(t), Changed(d, v)), "storage.onChanged")
    /\ lastOp' = Op("onChanged", ToString(t), d)
    /\ notified' = <<>>
    /\ applied' = <<>>
    /\ issued' = <<>>
    /\ uncaught' = <<>>
    /\ UNCHANGED <<phase, globalInstance, cur, selRef, listeners, mqListeners,
                   docAttr, selValue, localStorage, lastWrite, thrown,
                   envVars, extVars>>

\* page contexts with the popup closed; one of the open tabs runs the
\* content script and is handed deliveries
InitPage ==
    /\ host \in PopupHosts
    /\ storeOk = TRUE
    /\ activeTab = 0
    /\ tabListening \in {{t} : t \in Tabs}
    /\ popupLoadPending = TRUE
    /\ FreshPage
    /\ InitStores
    /\ InitTabs

NextPage ==
    \/ \E t \in Tabs : \E m \in InboundMessages : ReceiveMessage(t, m)
    \/ \E t \in Tabs : \E d \in Dims : \E v \in PageValues(d) \ {""} :
            StorageChanged(t, d, v)

SpecPage == InitPage /\ [][NextPage]_vars


(* --------------- the popup and the page contexts together ------------- *)

\* the 'Apply to All Tabs' button of the popup is clicked
ApplyToAllTabs ==
    /\ host.surface = "popup"
    /\ phase # "loading"
    /\ LET S == applyToAllTabs(Ctl) IN Fits(S) /\ Commit(S)
    /\ lastOp' = Op("applyToAllTabs", "", "")
    /\ UNCHANGED <<phase, globalInstance, listeners, mqListeners, lastWrite,
                   popupLoadPending, envVars, tabVars>>

\* the user focuses page context t, or (t = 0) a window without one
SwitchTab(t) ==
    /\ t # activeTab
    /\ activeTab' = t
    /\ lastOp' = Op("switchTab", ToString(t), "")
    /\ notified' = <<>>
    /\ applied' = <<>>
    /\ issued' = <<>>
    /\ uncaught' = <<>>
    /\ UNCHANGED <<phase, globalInstance, cur, selRef, listeners, mqListeners,
                   docAttr, selValue, localStorage, lastWrite, thrown, host,
                   storeOk, tabListening, extVars, tabVars>>

\* the position in queue q of the oldest message (messages = TRUE) or of the
\* oldest storage delivery (messages = FALSE), 0 when there is none
Oldest(q, messages) ==
    IF \E i \in 1..Len(q) : IsMessage(q[i]) = messages
    THEN CHOOSE i \in 1..Len(q) :
            /\ IsMessage(q[i]) = messages
            /\ \A j \in 1..(i - 1) : IsMessage(q[j]) # messages
    ELSE 0

Without(q, i) == [j \in 1..(Len(q) - 1) |-> IF j < i THEN q[j] ELSE q[j + 1]]

\* the oldest message in flight to page context t reaches its onMessage
\* listener
DeliverMessage(t) ==
    /\ t \in tabListening
    /\ Oldest(inbox[t], TRUE) # 0
    /\ LET i == Oldest(inbox[t], TRUE)
           m == inbox[t][i]
       IN  /\ CommitTab(t, onMessage(TabRec(t), m), m.action)
           /\ inbox' = [inbox EXCEPT ![t] = Without(@, i)]
           /\ lastOp' = Op("onMessage", ToString(t), m.action)
    /\ notified' = <<>>
    /\ applied' = <<>>
    /\ issued' = <<>>
    /\ uncaught' = <<>>
    /\ UNCHANGED <<phase, globalInstance, cur, selRef, listeners, mqListeners,
                   docAttr, selValue, localStorage, lastWrite, thrown,
                   envVars, syncStore, popupLoadPending, lastSend>>

\* the oldest storage delivery in flight to page context t reaches its
\* callback: the result of the initial read, or a change event
DeliverStorage(t) ==
    /\ t \in tabListening
    /\ Oldest(inbox[t], FALSE) # 0
    /\ LET i == Oldest(inbox[t], FALSE)
           x == inbox[t][i]
       IN  /\ IF x.kind = "stored"
              THEN /\ CommitTab(t, initializeContentScript(TabRec(t), x),
                                "storage.sync.get")
                   /\ lastOp' = Op("onStored", ToString(t), "")
              ELSE /\ CommitTab(t, onChanged(TabRec(t), x), "storage.onChanged")
                   /\ lastOp' = Op("onChanged", ToString(t),
                                   CHOOSE d \in Dims : x.top[d] # Null)
           /\ inbox' = [inbox EXCEPT ![t] = Without(@, i)]
    /\ notified' = <<>>
    /\ applied' = <<>>
    /\ issued' = <<>>
    /\ uncaught' = <<>>
    /\ UNCHANGED <<phase, globalInstance, cur, selRef, listeners, mqListeners,
                   docAttr, selValue, localStorage, lastWrite, thrown,
                   envVars, syncStore, popupLoadPending, lastSend>>

\* page context t loads a document anew.  What was in flight to the old
\* document is lost with it.  When the new document runs the content script
\* (listens), its listeners are registered and initializeContentScript()
\* issues the read of the sync area, whose result is what the area holds now.
TabReload(t, listens) ==
    /\ tabAttr' = [tabAttr EXCEPT ![t] = NoFields]
    /\ tabStyles' = [tabStyles EXCEPT ![t] = 0]
    /\ tabAck' = [tabAck EXCEPT ![t] = [action |-> "", responses |-> <<>>]]
    /\ tabListening' = IF listens THEN tabListening \cup {t}
                       ELSE tabListening \ {t}
    /\ inbox' = [inbox EXCEPT ![t] = IF listens THEN <<Stored(syncStore)>>
                                     ELSE <<>>]
    /\ lastSend' = [d \in Dims |-> IF lastSend[d] = t THEN 0 ELSE lastSend[d]]
    /\ lastOp' = Op("tabReload", ToString(t), "")
    /\ notified' = <<>>
    /\ applied' = <<>>
    /\ issued' = <<>>
    /\ uncaught' = <<>>
    /\ UNCHANGED <<phase, globalInstance, cur, selRef, listeners, mqListeners,
                   docAttr, selValue, localStorage, lastWrite, thrown, host,
                   storeOk, activeTab, syncStore, popupLoadPending>>

\* the values the user picks in the popup: the default and one other
PopupValues(d) ==
    IF d = "theme" THEN {"light", "dark"}
    ELSE IF d = "font" THEN {"system", "serif"}
    ELSE {"medium", "large"}

\* the user picks v in the control of dimension d, in a session in which the
\* controls of the other two dimensions are left alone
ChangeOnly(d, v) ==
    /\ \A e \in Dims \ {d} : syncStore[e] = Null
    /\ ControlChange(d, v)

\* the popup with the tabs of the browser behind it: any of the open tabs
\* may run the content script and any may be focused.  What the popup issues
\* stays in flight.
InitSend ==
    /\ host \in PopupHosts
    /\ storeOk = TRUE
    /\ activeTab \in Tabs \cup {0}
    /\ tabListening \in SUBSET Tabs
    /\ popupLoadPending = TRUE
    /\ FreshPage
    /\ InitStores
    /\ InitTabs

NextSend ==
    \/ Construct
    \/ PopupLoad
    \/ \E d \in Dims : \E v \in PopupValues(d) : ChangeOnly(d, v)
    \/ Reset
    \/ ApplyToAllTabs
    \/ \E t \in Tabs \cup {0} : SwitchTab(t)

SpecSend == InitSend /\ [][NextSend]_vars

\* the tabs whose page can run the content script; the pages of the other
\* tabs (the browser's own pages) never do
Scripted == {1}

\* the popup and a page context that handles what reaches it
InitSync ==
    /\ host \in PopupHosts
    /\ storeOk = TRUE
    /\ activeTab \in Tabs \cup {0}
    /\ tabListening \in SUBSET Scripted
    /\ popupLoadPending = TRUE
    /\ FreshPage
    /\ InitStores
    /\ InitTabs

NextSync ==
    \/ Construct
    \/ PopupLoad
    \/ \E d \in Dims : \E v \in PopupValues(d) : ChangeOnly(d, v)
    \/ ApplySettings
    \/ ApplyToAllTabs
    \/ \E t \in Tabs \cup {0} : SwitchTab(t)
    \/ \E t \in Tabs : DeliverMessage(t)
    \/ \E t \in Tabs : DeliverStorage(t)
    \/ \E t \in Scripted : \E listens \in BOOLEAN : TabReload(t, listens)

SpecSync == InitSync /\ [][NextSync]_vars


(* ------------------------------ properties ---------------------------- *)

DefaultTriple ==
    [theme |-> defaultTheme, font |-> defaultFont, fontSize |-> defaultFontSize]

DefaultFields == [d \in Dims |-> Default(d)]

SetKinds == {"set", "controlChange"}

Names(events) == [i \in 1..Len(events) |-> events[i].name]

\* C1: once the controller exists, after every completed operation each
\* dimension's in-memory value equals the attribute applied to the document
\* and the value shown by the control the controller holds for it; after
\* setDimension(d, v) all three are v.
C1_SurfacesAgree ==
    phase # "loading" =>
        /\ \A d \in Dims :
              /\ docAttr[d] = cur[d]
              /\ d \in selRef => selValue[d] = cur[d]
        /\ lastOp.kind \in SetKinds => cur[lastOp.dim] = lastOp.value

\* the popup's storage callback has run over a shared-store value that
\* differs from the controller's
C1_Witness ==
    /\ lastOp.kind = "popupLoad"
    /\ \E d \in selRef : Truthy(syncStore[d]) /\ syncStore[d] # cur[d]

\* C2: a setDimension(d, v) step leaves the in-memory value, the store
\* entries, the document attribute and the control of the other two
\* dimensions as they were.
C2_SetDimensionFrame ==
    [][lastOp'.kind \in SetKinds =>
         \A e \in Dims \ {lastOp'.dim} :
            /\ cur'[e] = cur[e]
            /\ localStorage'[storageKeys(e)] = localStorage[storageKeys(e)]
            /\ syncStore'[e] = syncStore[e]
            /\ docAttr'[e] = docAttr[e]
            /\ selValue'[e] = selValue[e]]_vars

\* setFont ran while theme was stored, applied and shown as 'dark'
C2_Witness ==
    /\ lastOp = Op("set", "font", "serif")
    /\ cur["theme"] = "dark"
    /\ localStorage[storageKeys("theme")] = "dark"
    /\ docAttr["theme"] = "dark"
    /\ selValue["theme"] = "dark"

\* C3: a controller constructed while the store is available starts, in every
\* dimension, from the non-empty value that setDimension wrote last.
C3_RoundTrip ==
    (lastOp.kind = "construct" /\ storeOk) =>
        \A d \in Dims : Truthy(lastWrite[d]) => cur[d] = lastWrite[d]

\* a controller constructed over three written, non-default values
C3_Witness ==
    /\ lastOp.kind = "construct"
    /\ storeOk
    /\ lastWrite = [theme |-> "dark", font |-> "serif", fontSize |-> "large"]
    /\ Triple(cur) = [theme |-> "dark", font |-> "serif", fontSize |-> "large"]

\* C4: construction over a store whose reads throw completes, starts from the
\* configured defaults, applies them and reports them in 'initialized'.
C4_FallbackToDefaults ==
    (lastOp.kind = "construct" /\ ~storeOk) =>
        /\ phase = "ready"
        /\ ~thrown
        /\ Triple(cur) = DefaultTriple
        /\ docAttr = DefaultFields
        /\ notified = <<[name |-> "initialized", detail |-> DefaultTriple]>>

\* construction over an unreadable store that holds a non-default theme
C4_Witness ==
    /\ lastOp.kind = "construct"
    /\ ~storeOk
    /\ localStorage[storageKeys("theme")] = "dark"
    /\ cur["theme"] = defaultTheme

\* C5: setDimension(d, v) over a store whose write throws raises nothing,
\* holds v in memory, applies v, shows v in the bound control and emits the
\* <d>Changed notification with the full current triple.
C5_WriteFailureTolerated ==
    (lastOp.kind \in SetKinds /\ ~storeOk) =>
        /\ ~thrown
        /\ cur[lastOp.dim] = lastOp.value
        /\ docAttr[lastOp.dim] = lastOp.value
        /\ applied = <<(<<lastOp.dim, lastOp.value>>)>>
        /\ lastOp.dim \in selRef => selValue[lastOp.dim] = lastOp.value
        /\ notified = <<[name |-> ChangedEvent(lastOp.dim), detail |-> Triple(cur)]>>

\* setTheme('dark') ran over a throwing store that keeps another value
C5_Witness ==
    /\ lastOp = Op("set", "theme", "dark")
    /\ ~storeOk
    /\ "theme" \in selRef
    /\ localStorage[storageKeys("theme")] # "dark"

\* C6: reset() leaves the settings at the configured defaults and emits
\* exactly themeChanged, fontChanged, fontSizeChanged, reset, in this order.
C6_Reset ==
    lastOp.kind = "reset" =>
        /\ Triple(cur) = DefaultTriple
        /\ Names(notified) = <<"themeChanged", "fontChanged", "fontSizeChanged", "reset">>
        /\ notified[4].detail = DefaultTriple

\* reset() ran from a state whose font and font size were not the defaults
C6_Witness ==
    /\ lastOp.kind = "reset"
    /\ Len(notified) = 4
    /\ notified[1].detail.font = "serif"
    /\ notified[1].detail.fontSize = "large"

\* C7: clearStorage() leaves the in-memory triple, the document and the
\* controls as they were and emits exactly one storageCleared notification
\* with the unchanged triple; with the store available all three keys are
\* gone afterwards, and with a throwing store nothing else changes.
C7_ClearStorageFrame ==
    [][lastOp'.kind = "clearStorage" =>
         /\ cur' = cur
         /\ docAttr' = docAttr
         /\ selValue' = selValue
         /\ applied' = <<>>
         /\ ~thrown'
         /\ notified' = <<[name |-> "storageCleared", detail |-> Triple(cur)]>>
         /\ storeOk => \A k \in StorageKeySet : localStorage'[k] = Null
         /\ ~storeOk => localStorage' = localStorage]_vars

\* clearStorage() emptied a store while the controller held 'dark'
C7_Witness ==
    /\ lastOp.kind = "clearStorage"
    /\ storeOk
    /\ cur["theme"] = "dark"
    /\ lastWrite = NoFields
    /\ \A k \in StorageKeySet : localStorage[k] = Null

\* C8: a system-theme signal re-applies the theme exactly when the current
\* theme is 'auto', never applies font or font size, changes neither the
\* in-memory triple nor a store, and emits no notification.
C8_SystemSignal ==
    [][lastOp'.kind = "systemSignal" =>
         /\ applied' = IF cur["theme"] = "auto"
                       THEN <<(<<"theme", "auto">>)>> ELSE <<>>
         /\ cur' = cur
         /\ localStorage' = localStorage
         /\ syncStore' = syncStore
         /\ docAttr'["font"] = docAttr["font"]
         /\ docAttr'["fontSize"] = docAttr["fontSize"]
         /\ notified' = <<>>]_vars

\* the signal fired while the theme was 'auto' and re-applied it
C8_Witness ==
    /\ lastOp.kind = "systemSignal"
    /\ host.autoDetectSystemTheme
    /\ cur["theme"] = "auto"
    /\ applied = <<(<<"theme", "auto">>)>>

\* C9: destroy() emits one destroyed notification, and after it a change
\* signal of a control or a system-theme signal changes nothing in memory,
\* writes no store, applies nothing to the document and notifies nobody.
C9_DestroyedIsInert ==
    [][/\ lastOp'.kind = "destroy" =>
            notified' = <<[name |-> "destroyed", detail |-> Triple(cur)]>>
       /\ (phase = "destroyed" /\ lastOp'.kind \in {"controlChange", "systemSignal"}) =>
            /\ cur' = cur
            /\ localStorage' = localStorage
            /\ docAttr' = docAttr
            /\ applied' = <<>>
            /\ notified' = <<>>]_vars

KnownActions == {"setTheme", "setFont", "setFontSize", "applySettings"}

\* what the handling of one message by page context t must look like, with
\* the given error text for an unknown tag
Acknowledged(t, action, before, beforeStyles, after, afterStyles, ack, errorText) ==
    /\ ack.action = action
    /\ Len(ack.responses) = 1
    /\ action \in KnownActions =>
          ack.responses[1] = [success |-> TRUE, error |-> Null]
    /\ action \notin KnownActions =>
          /\ ack.responses[1] = [success |-> FALSE, error |-> errorText]
          /\ after = before
          /\ afterStyles = beforeStyles

\* C10 as stated: every message gets exactly one acknowledgment, success for
\* the four known tags, and {success: false, error: "unknown action"} with no
\* change of the page context's state for any other tag.
C10_AckUnknownActionLowercase ==
    [][lastOp'.kind = "onMessage" =>
         \E t \in Tabs :
            /\ ToString(t) = lastOp'.dim
            /\ Acknowledged(t, lastOp'.value, tabAttr[t], tabStyles[t],
                            tabAttr'[t], tabStyles'[t], tabAck'[t],
                            "unknown action")]_vars

\* C10, amended: as above, the error text being "Unknown action".
C10_EveryMessageAcknowledged ==
    [][lastOp'.kind = "onMessage" =>
         \E t \in Tabs :
            /\ ToString(t) = lastOp'.dim
            /\ Acknowledged(t, lastOp'.value, tabAttr[t], tabStyles[t],
                            tabAttr'[t], tabStyles'[t], tabAck'[t],
                            "Unknown action")]_vars

\* a page context that shows 'dark' was sent a tag it does not know
C10_Witness ==
    \E t \in Tabs :
        /\ lastOp = Op("onMessage", ToString(t), "ping")
        /\ tabAttr[t]["theme"] = "dark"
        /\ tabAck[t].responses = <<[success |-> FALSE, error |-> "Unknown action"]>>

\* a field of the settings payload counts as carried when it is present
\* and, with nonEmpty, is not the empty string
IsCarried(v, nonEmpty) == v # Null /\ (nonEmpty => v # "")

\* what handling the applySettings message m does to page context t when the
\* carried dimensions are the ones applied
AppliesExactly(t, m, nonEmpty) ==
    /\ \A d \in Dims :
          tabAttr'[t][d] = IF m.hasSettings /\ IsCarried(m.settings[d], nonEmpty)
                           THEN m.settings[d] ELSE tabAttr[t][d]
    /\ tabAck'[t].responses = <<[success |-> TRUE, error |-> Null]>>

\* C11 as stated: an inbound applySettings message sets exactly the
\* dimensions present in its settings, leaves the absent ones as they were,
\* changes nothing when it has no settings, and is acknowledged with success.
C11_AppliesPresentFields ==
    [][\A t \in Tabs : \A m \in InboundMessages :
          m.action = "applySettings" /\ ReceiveMessage(t, m)
             => AppliesExactly(t, m, FALSE)]_vars

\* C11, amended: the dimensions set are those present with a non-empty
\* value; a dimension that is absent or carries the empty string keeps its
\* applied value.
C11_AppliesNonEmptyFields ==
    [][\A t \in Tabs : \A m \in InboundMessages :
          m.action = "applySettings" /\ ReceiveMessage(t, m)
             => AppliesExactly(t, m, TRUE)]_vars

\* a page context that showed theme 'auto' handled an applySettings message
\* and now shows font 'serif' too, its font size still unset
C11_Witness ==
    \E t \in Tabs :
        /\ lastOp = Op("onMessage", ToString(t), "applySettings")
        /\ tabAttr[t] = [NoFields EXCEPT !["theme"] = "auto", !["font"] = "serif"]
        /\ tabAck[t].responses = <<[success |-> TRUE, error |-> Null]>>

\* C16: every setDimension call emits exactly one <dimension>Changed
\* notification, also when the value is the current one, carrying the full
\* triple as it is at emission; the three calls reset() makes emit theirs in
\* call order, each with the triple of that moment.
C16_OneNotificationPerCall ==
    [][/\ lastOp'.kind \in SetKinds =>
            /\ notified' = <<[name |-> ChangedEvent(lastOp'.dim),
                              detail |-> Triple(cur')]>>
            /\ notified'[1].detail[lastOp'.dim] = lastOp'.value
            /\ \A e \in Dims \ {lastOp'.dim} :
                  notified'[1].detail[e] = cur[e]
       /\ lastOp'.kind = "reset" =>
            /\ Len(notified') = 4
            /\ notified'[1] = [name |-> "themeChanged",
                               detail |-> [theme |-> defaultTheme,
                                           font |-> cur["font"],
                                           fontSize |-> cur["fontSize"]]]
            /\ notified'[2] = [name |-> "fontChanged",
                               detail |-> [theme |-> defaultTheme,
                                           font |-> defaultFont,
                                           fontSize |-> cur["fontSize"]]]
            /\ notified'[3] = [name |-> "fontSizeChanged",
                               detail |-> DefaultTriple]]_vars

\* setTheme('dark') was called on a controller whose font and font size are
\* not the defaults, and emitted themeChanged with all three values
C16_Witness ==
    /\ lastOp = Op("set", "theme", "dark")
    /\ notified = <<[name |-> "themeChanged",
                     detail |-> [theme |-> "dark", font |-> "serif",
                                 fontSize |-> "large"]]>>

\* the store key of dimension d when the font size goes by sizeName
KeyNamed(d, sizeName) ==
    storagePrefix \o "-" \o (IF d = "fontSize" THEN sizeName ELSE d)

\* the controller keeps its values under the keys KeyNamed(d, sizeName) and
\* no others: a setter writes there, construction reads from there, and
\* clearStorage() empties them
UsesKeys(sizeName) ==
    /\ \A k \in DOMAIN localStorage' :
          localStorage'[k] # Null => \E d \in Dims : k = KeyNamed(d, sizeName)
    /\ lastOp'.kind \in SetKinds /\ storeOk =>
          localStorage'[KeyNamed(lastOp'.dim, sizeName)] = lastOp'.value
    /\ lastOp'.kind = "construct" /\ storeOk =>
          \A d \in Dims :
             cur'[d] = OrElse(localStorage[KeyNamed(d, sizeName)], Default(d))
    /\ lastOp'.kind = "clearStorage" /\ storeOk =>
          \A d \in Dims : localStorage'[KeyNamed(d, sizeName)] = Null

\* C18 as stated: the store keys are <storagePrefix>-theme,
\* <storagePrefix>-font and <storagePrefix>-fontSize, used alike by the
\* setters, by construction and by clearStorage().
C18_KeysCamelCase == [][UsesKeys("fontSize")]_vars

\* C18, amended: the key of the font size is <storagePrefix>-font-size.
C18_KeysKebabCase == [][UsesKeys("font-size")]_vars

\* a controller constructed over a store that holds 'large' under
\* theme-font-toggle-font-size came up with font size 'large'
C18_Witness ==
    /\ lastOp = Op("construct", "", "")
    /\ storeOk
    /\ localStorage["theme-font-toggle-font-size"] = "large"
    /\ localStorage["theme-font-toggle-fontSize"] = Null
    /\ cur["fontSize"] = "large"

IsChangedEvent(ev) == \E d \in Dims : ev.name = ChangedEvent(d)

DimOfEvent(name) == CHOOSE d \in Dims : ChangedEvent(d) = name

\* the single-dimension message for dimension d with value v
SetMessage(d, v) ==
    Message(SetAction(d), [NoFields EXCEPT ![d] = v], FALSE, NoFields)

\* C12: for every themeChanged / fontChanged / fontSizeChanged notification
\* the popup issues, in this order, one write of the changed dimension alone
\* to the sync area, with the value the notification carries, and one
\* single-dimension message with that value to the focused page context (no
\* message when no page context is focused); it issues nothing else, writes
\* no other dimension and sends to no other page context.
C12_WriteThenSend ==
    [][host.surface = "popup" /\ lastOp'.kind \in SetKinds \cup {"reset"} =>
         LET evs == SelectSeq(notified', IsChangedEvent)
             per == IF activeTab = 0 THEN 1 ELSE 2
         IN  /\ Len(evs) = IF lastOp'.kind = "reset" THEN 3 ELSE 1
             /\ Len(issued') = per * Len(evs)
             /\ \A i \in 1..Len(evs) :
                   LET d == DimOfEvent(evs[i].name)
                       v == evs[i].detail[d]
                   IN  /\ issued'[per * (i - 1) + 1] =
                             Call("storage.sync.set", 0, Changed(d, v))
                       /\ syncStore'[d] = v
                       /\ activeTab # 0 =>
                             issued'[per * i] =
                                Call("tabs.sendMessage", activeTab,
                                     SetMessage(d, v))
             /\ \A e \in Dims :
                   (\A i \in 1..Len(evs) : DimOfEvent(evs[i].name) # e)
                      => syncStore'[e] = syncStore[e]
             /\ \A t \in Tabs :
                   SelectSeq(inbox'[t], IsMessage) =
                      IF t = activeTab /\ t \in tabListening
                      THEN SelectSeq(inbox[t], IsMessage)
                              \o [i \in 1..Len(evs) |->
                                    SetMessage(DimOfEvent(evs[i].name),
                                      evs[i].detail[DimOfEvent(evs[i].name)])]
                      ELSE SelectSeq(inbox[t], IsMessage)]_vars

\* the user picked font 'serif' in the popup while page context 1 was
\* focused and listening: the sync area was written, then setFont was sent,
\* and the message is in flight to that context
C12_Witness ==
    /\ lastOp = Op("controlChange", "font", "serif")
    /\ activeTab = 1
    /\ 1 \in tabListening
    /\ issued = <<Call("storage.sync.set", 0, Changed("font", "serif")),
                  Call("tabs.sendMessage", 1, SetMessage("font", "serif"))>>
    /\ syncStore = [NoFields EXCEPT !["font"] = "serif"]
    /\ \E i \in 1..Len(inbox[1]) : inbox[1][i] = SetMessage("font", "serif")

\* C13: 'apply to all' sends each open page context exactly one applySettings
\* message carrying the controller's current triple; the contexts that can
\* receive all get it, whichever of the others fail, no error is left
\* unhandled and the controller's own state stays as it was.
C13_ApplyToAll ==
    [][lastOp'.kind = "applyToAllTabs" =>
         LET m == Message("applySettings", NoFields, TRUE, Triple(cur))
         IN  /\ Len(issued') = NumTabs
             /\ \A t \in Tabs :
                   /\ \E i \in 1..Len(issued') :
                         issued'[i] = Call("tabs.sendMessage", t, m)
                   /\ inbox'[t] = IF t \in tabListening
                                  THEN Append(inbox[t], m) ELSE inbox[t]
             /\ uncaught' = <<>>
             /\ ~thrown'
             /\ UNCHANGED <<cur, docAttr, selValue, localStorage, syncStore>>]_vars

\* 'apply to all' with theme 'dark' while the first tab cannot receive and
\* the second can: the second has the message in flight
C13_Witness ==
    /\ lastOp = Op("applyToAllTabs", "", "")
    /\ NumTabs >= 2
    /\ 1 \notin tabListening
    /\ 2 \in tabListening
    /\ cur["theme"] = "dark"
    /\ Len(issued) = NumTabs
    /\ \E i \in 1..Len(inbox[2]) :
          inbox[2][i] = Message("applySettings", NoFields, TRUE, Triple(cur))

\* C17: when the single-dimension message of a change cannot be delivered
\* (no page context is focused, or the focused one has no receiver), the
\* popup is left with no error, thrown or unhandled, and the change itself
\* stands: in memory, in the control and in the sync area.
C17_SendFailureRecovered ==
    [][/\ host.surface = "popup"
       /\ lastOp'.kind \in SetKinds
       /\ activeTab \notin tabListening
       => /\ uncaught' = <<>>
          /\ ~thrown'
          /\ cur'[lastOp'.dim] = lastOp'.value
          /\ selValue'[lastOp'.dim] = lastOp'.value
          /\ syncStore'[lastOp'.dim] = lastOp'.value]_vars

C15_NoRetry ==
    [][/\ (lastOp'.kind \in SetKinds /\ activeTab \notin tabListening) =>
            \A t \in Tabs : SelectSeq(inbox'[t], IsMessage)
                               = SelectSeq(inbox[t], IsMessage)
       /\ \A t \in Tabs :
            /\ (t \notin tabListening /\ lastOp' # Op("tabReload", ToString(t), ""))
                  => /\ tabAttr'[t] = tabAttr[t]
                     /\ inbox'[t] = <<>>
                     /\ t \notin tabListening'
            /\ (t \notin tabListening /\ t \in tabListening')
                  => inbox'[t] = <<Stored(syncStore)>>
            /\ tabAttr'[t] # tabAttr[t]
                  => /\ lastOp'.dim = ToString(t)
                     /\ lastOp'.kind \in {"onMessage", "onChanged", "onStored",
                                          "tabReload"}]_vars

\* the user picked 'dark' while the focused page context had no receiver:
\* the send failed, nothing is in flight to that context and its theme is
\* not the controller's
C15_Witness ==
    /\ lastOp = Op("controlChange", "theme", "dark")
    /\ activeTab = 1
    /\ 1 \notin tabListening
    /\ uncaught = <<"NoReceiver">>
    /\ cur["theme"] = "dark"
    /\ syncStore["theme"] = "dark"
    /\ tabAttr[1]["theme"] # "dark"
    /\ inbox[1] = <<>>

\* C19: in every state of a constructed controller, applySettings() emits
\* no notification, issues no chrome call and leaves the in-memory triple and
\* the stores alone, and a second applySettings() leaves the document
\* attributes, the controls, the triple and the stores as the first left
\* them; a page context that applies the theme it already shows ends up as
\* it was, and no page context ever holds more than one theme-toggle-styles
\* element.
C19_Idempotent ==
    /\ phase = "ready" =>
          LET once == applySettings(Ctl)
              twice == applySettings(once)
          IN  /\ once.doc = cur
              /\ once.cur = cur /\ once.ls = localStorage
              /\ once.sync = syncStore /\ once.inbox = inbox
              /\ once.notified = <<>> /\ once.issued = <<>>
              /\ twice.doc = once.doc
              /\ twice.sel = once.sel
              /\ twice.cur = once.cur
              /\ twice.ls = once.ls
              /\ twice.sync = once.sync
              /\ twice.inbox = once.inbox
              /\ twice.notified = <<>>
              /\ twice.issued = <<>>
    /\ lastOp.kind = "applySettings" =>
          /\ notified = <<>>
          /\ docAttr = cur
          /\ \A d \in selRef : selValue[d] = cur[d]
    /\ \A t \in Tabs :
          /\ tabStyles[t] <= 1
          /\ tabAttr[t]["theme"] # Null =>
                LET again == pageApplyTheme(TabRec(t), tabAttr[t]["theme"])
                IN  again.attr = tabAttr[t] /\ again.styles = tabStyles[t]

\* applySettings() ran in the popup with theme 'dark' while page context 1,
\* which had been delivered that theme by message and by change event, shows
\* it with one style element
C19_Witness ==
    /\ lastOp = Op("applySettings", "", "")
    /\ applied = <<<<"theme", "dark">>, <<"font", cur["font"]>>,
                   <<"fontSize", cur["fontSize"]>>>>
    /\ docAttr["theme"] = "dark"
    /\ selValue["theme"] = "dark"
    /\ tabAttr[1]["theme"] = "dark"
    /\ tabStyles[1] = 1
    /\ inbox[1] = <<>>
    /\ lastSend["theme"] = 1

\* C20: a page context that runs the content script never goes back to the
\* value of an earlier change: once it has handled the message of the
\* controller's latest change of a dimension it shows the controller's value
\* of that dimension whatever else reaches it, and when nothing is in flight
\* to it, it shows the controller's value of every dimension that has been
\* changed.
C20_NoStaleApplication ==
    \A t \in tabListening : \A d \in Dims :
        /\ (/\ phase # "loading"
            /\ lastSend[d] = t
            /\ \A i \in 1..Len(inbox[t]) : inbox[t][i].action # SetAction(d))
              => tabAttr[t][d] = cur[d]
        /\ (phase # "loading" /\ inbox[t] = <<>> /\ syncStore[d] # Null)
              => tabAttr[t][d] = cur[d]

(* ------------- one controller over a store left by earlier visits -------- *)

\* a value no option of any control carries
Custom == "custom"

\* what an earlier visit, or another script of the origin, may have left under
\* the key of dimension d: nothing, the empty string, a listed value, or a
\* value that no control lists
StoredAtLoad(d) ==
    {Null, "", Custom} \cup
    (CASE d = "theme" -> {"dark"} [] d = "font" -> {"serif"} [] OTHER -> {"large"})

\* a web page whose localStorage works and already holds any such content
InitLoad ==
    /\ host \in PageHosts
    /\ storeOk = TRUE
    /\ activeTab = 0
    /\ tabListening = {}
    /\ popupLoadPending = FALSE
    /\ FreshPage
    /\ InitTabs
    /\ localStorage \in [LocalStorageKeys -> {Null, "", Custom, "dark", "serif", "large"}]
    /\ \A d \in Dims : localStorage[storageKeys(d)] \in StoredAtLoad(d)
    /\ \A k \in LocalStorageKeys \ StorageKeySet : localStorage[k] = Null
    /\ lastWrite = NoFields
    /\ syncStore = NoFields

\* the operations of one controller from its construction on, the page neither
\* reloaded nor its store cleared or failing
NextLoad ==
    \/ Construct
    \/ \E d \in Dims : \E v \in Values(d) : ControlChange(d, v)
    \/ \E d \in Dims : \E v \in Values(d) : SetDimension(d, v)
    \/ ApplySettings
    \/ Reset
    \/ SystemThemeSignal
    \/ KeyboardShortcut

SpecLoad == InitLoad /\ [][NextLoad]_vars

C22_InitialValues ==
    lastOp.kind = "construct" =>
        \A d \in Dims :
            LET stored == localStorage[storageKeys(d)]
            IN  /\ stored \notin {Null, ""} => cur[d] = stored
                /\ stored \in {Null, ""} => cur[d] = Default(d)

\* constructed over an unlisted theme, an empty font entry and no font size
\* entry
C22_Witness ==
    /\ lastOp.kind = "construct"
    /\ localStorage[storageKeys("theme")] = Custom
    /\ localStorage[storageKeys("font")] = ""
    /\ localStorage[storageKeys("fontSize")] = Null
    /\ Triple(cur) = [theme |-> Custom, font |-> Default("font"),
                      fontSize |-> Default("fontSize")]

\* C23: setDimension(d, v) on a page where the selector of d matched no element
\* lets no error out, leaves v in memory, in the store and on the document,
\* emits the one <d>Changed notification, and leaves what every control shows
\* and the listeners bound to the controls as they were.
C23_MissingControl ==
    [][(lastOp'.kind = "set" /\ lastOp'.dim \notin host.controls) =>
         LET d == lastOp'.dim
             v == lastOp'.value
         IN  /\ ~thrown'
             /\ d \notin selRef
             /\ cur'[d] = v
             /\ localStorage'[storageKeys(d)] = v
             /\ docAttr'[d] = v
             /\ notified' = <<[name |-> ChangedEvent(d), detail |-> Triple(cur')]>>
             /\ selValue' = selValue
             /\ selRef' = selRef
             /\ listeners' = listeners]_vars

\* setFont('serif') ran on a page that has a theme control showing 'dark' and
\* no font control
C23_Witness ==
    /\ lastOp = Op("set", "font", "serif")
    /\ host.controls = {"theme"}
    /\ selValue["theme"] = "dark"
    /\ ArrowListener("theme") \in listeners["theme"]
    /\ cur["font"] = "serif"
    /\ localStorage[storageKeys("font")] = "serif"
    /\ docAttr["font"] = "serif"
    /\ Len(notified) = 1

\* C24: once the popup's load callback has run, every dimension with a
\* non-empty entry in chrome.storage.sync is shown by its control with that
\* entry's value and held in memory by the popup's controller with that value.
C24_PopupAgreesWithSync ==
    lastOp.kind = "popupLoad" =>
        \A d \in Dims :
            Truthy(syncStore[d]) =>
                /\ selValue[d] = syncStore[d]
                /\ cur[d] = syncStore[d]

\* C25: with one controller over a working store that is neither cleared nor
\* reloaded, the entry persisted for each dimension is absent or equal to the
\* controller's in-memory value of that dimension.
C25_StoreAbsentOrCurrent ==
    phase = "ready" =>
        \A d \in Dims :
            localStorage[storageKeys(d)] \in {Null, cur[d]}

\* C25 as the code has it: the entry persisted for each dimension is absent,
\* the empty string (which construction replaces by the default in memory), or
\* equal to the controller's in-memory value of that dimension.
C25_StoreAbsentEmptyOrCurrent ==
    phase = "ready" =>
        \A d \in Dims :
            localStorage[storageKeys(d)] \in {Null, "", cur[d]}

\* a controller constructed over an empty font entry and an unlisted theme has
\* since had its font size set: the font entry is still empty beside the
\* default in memory, the other two entries are the in-memory values
C25_Witness ==
    /\ lastOp = Op("set", "fontSize", "large")
    /\ localStorage[storageKeys("font")] = ""
    /\ cur["font"] = Default("font")
    /\ localStorage[storageKeys("theme")] = Custom
    /\ cur["theme"] = Custom
    /\ localStorage[storageKeys("fontSize")] = "large"
    /\ cur["fontSize"] = "large"

====
